---- MODULE Spec2Model ----
(***************************************************************************)
(* DisasterWatch backend (server.js): five source adapters, the           *)
(* aggregation pipeline (allSettled -> deduplicate -> sort) and the        *)
(* time-windowed cache behind the three HTTP routes.                       *)
(*                                                                         *)
(* Units: coordinates and magnitudes are in tenths (0.5 degree = 5,        *)
(* magnitude 6.5 = 65); the clock and every timestamp are in minutes.      *)
(***************************************************************************)
EXTENDS Integers, Sequences, FiniteSets, Bags, TLC

VARIABLES world, env, pipe, now, listening, cache, prewarm, reqs, lastAll, response,
          secret, redditToken, redditTokenExpiry, run

\* the credential state of the social-text adapter and its runs
tokenVars == <<secret, redditToken, redditTokenExpiry, run>>

vars == <<world, env, pipe, now, listening, cache, prewarm, reqs, lastAll, response,
          secret, redditToken, redditTokenExpiry, run>>

(***************************************************************************)
(* Bounds of the model                                                     *)
(***************************************************************************)
MaxRecords == 3
MaxTime == 5
MaxReqs == 2
MaxRuns == 1

(***************************************************************************)
(* JavaScript values that are not finite numbers, encoded as integers      *)
(* below every coordinate, magnitude and timestamp of the model.           *)
(***************************************************************************)
JSNull == -9001
JSUndef == -9002
JSNaN == -9003
JSStr == -9004
JSEmpty == -9005

IsNumber(v) == v > -9000

\* Number(v) / the implicit ToNumber of the arithmetic operators
ToNumber(v) ==
  IF IsNumber(v) THEN v
  ELSE IF v = JSNull \/ v = JSEmpty THEN 0
  ELSE JSNaN

\* the global isNaN(v)
jsIsNaN(v) == ToNumber(v) = JSNaN

\* parseFloat(v): a string or absent value that does not start with a number is NaN
jsParseFloat(v) == IF IsNumber(v) THEN v ELSE JSNaN

\* the truthiness test of &&, || and filter callbacks
Truthy(v) == v \notin {JSNull, JSUndef, JSNaN, JSEmpty, 0}

Abs(x) == IF x < 0 THEN -x ELSE x

\* Math.abs(a - b) < d, false as soon as either operand converts to NaN
AbsDiffLess(a, b, d) ==
  /\ ToNumber(a) # JSNaN
  /\ ToNumber(b) # JSNaN
  /\ Abs(ToNumber(a) - ToNumber(b)) < d

(***************************************************************************)
(* Program constants                                                       *)
(***************************************************************************)
CACHE_TTL_MS == 3
MAG_CRITICAL == 65
MAG_HIGH == 55
MAG_MODERATE == 45
GDACS_CAP == 30
DEDUP_DELTA == 5
MIN_SCORE == 10
GdacsIdStride == 100

sourceNames == <<"USGS", "NASA EONET", "GDACS", "ReliefWeb", "Reddit">>

Sources == {sourceNames[i] : i \in 1..Len(sourceNames)}

Fulfilled(v) == [status |-> "fulfilled", value |-> v, reason |-> ""]

Rejected(msg) == [status |-> "rejected", value |-> <<>>, reason |-> msg]

Incident(src, id, type, lat, lng, severity, time) ==
  [id |-> <<src, id>>, type |-> type, lat |-> lat, lng |-> lng,
   severity |-> severity, time |-> time]

(***************************************************************************)
(* SOURCE 1: USGS                                                          *)
(***************************************************************************)
USGSSeverity(mag) ==
  IF ToNumber(mag) # JSNaN /\ ToNumber(mag) >= MAG_CRITICAL THEN "critical"
  ELSE IF ToNumber(mag) # JSNaN /\ ToNumber(mag) >= MAG_HIGH THEN "high"
  ELSE IF ToNumber(mag) # JSNaN /\ ToNumber(mag) >= MAG_MODERATE THEN "moderate"
  ELSE "low"

\* mag.toFixed on a null magnitude, coordinates[2].toFixed on a short
\* coordinate array and toISOString on an invalid date throw inside map()
USGSThrows(f) ==
  \/ ~IsNumber(f.mag)
  \/ f.lat = JSUndef
  \/ f.lng = JSUndef
  \/ jsIsNaN(f.time)

USGSMap(f) ==
  Incident("usgs", f.id, "earthquake", f.lat, f.lng, USGSSeverity(f.mag), ToNumber(f.time))

\* .filter(i => i.lat && i.lng)
USGSKeep(i) == Truthy(i.lat) /\ Truthy(i.lng)

RECURSIVE USGSRecords(_)
USGSRecords(feed) ==
  IF feed = <<>> THEN <<>>
  ELSE LET i == USGSMap(Head(feed))
       IN (IF USGSKeep(i) THEN <<i>> ELSE <<>>) \o USGSRecords(Tail(feed))

fetchUSGS(src) ==
  IF ~src.up THEN Rejected("timeout of 10000ms exceeded")
  ELSE IF \E k \in 1..Len(src.records) : USGSThrows(src.records[k])
       THEN Rejected("TypeError")
  ELSE Fulfilled(USGSRecords(src.records))

(***************************************************************************)
(* SOURCE 2: NASA EONET                                                    *)
(***************************************************************************)
NASATypeMap(category) ==
  CASE category = "Wildfires" -> "fire"
    [] category = "Floods" -> "flood"
    [] category = "Severe Storms" -> "storm"
    [] category = "Volcanoes" -> "volcano"
    [] category = "Tsunamis" -> "tsunami"
    [] category = "Earthquakes" -> "earthquake"
    [] OTHER -> "other"

NASASevMap(type) ==
  CASE type \in {"fire", "volcano", "storm"} -> "high"
    [] type = "tsunami" -> "critical"
    [] type = "flood" -> "moderate"
    [] OTHER -> "moderate"

\* if (!geo?.coordinates) continue; else-branch of the geometry type; isNaN test
NASASkip(e) ==
  \/ e.geo \notin {"Point", "Polygon"}
  \/ jsIsNaN(e.lat)
  \/ jsIsNaN(e.lng)

NASAMap(e, t) ==
  Incident("nasa", e.id, NASATypeMap(e.category), e.lat, e.lng,
           NASASevMap(NASATypeMap(e.category)),
           IF IsNumber(e.date) THEN e.date ELSE t)

RECURSIVE NASARecords(_, _)
NASARecords(feed, t) ==
  IF feed = <<>> THEN <<>>
  ELSE (IF NASASkip(Head(feed)) THEN <<>> ELSE <<NASAMap(Head(feed), t)>>)
       \o NASARecords(Tail(feed), t)

fetchNASAEONET(src, t) ==
  IF ~src.up THEN Rejected("timeout of 10000ms exceeded")
  ELSE Fulfilled(NASARecords(src.records, t))

(***************************************************************************)
(* SOURCE 3: GDACS                                                         *)
(***************************************************************************)
GDACSType(title) ==
  CASE title \in {"earthquake", "quake"} -> "earthquake"
    [] title = "flood" -> "flood"
    [] title \in {"cyclone", "hurricane", "typhoon", "storm"} -> "storm"
    [] title \in {"volcano", "eruption"} -> "volcano"
    [] title = "tsunami" -> "tsunami"
    [] title = "fire" -> "fire"
    [] OTHER -> "other"

GDACSSevMap(alertLevel) ==
  CASE alertLevel = "Red" -> "critical"
    [] alertLevel = "Orange" -> "high"
    [] alertLevel = "Green" -> "moderate"
    [] OTHER -> "moderate"

\* new Date(pubDate).toISOString() throws on an unparsable pubDate
GDACSThrows(item) ==
  /\ ~jsIsNaN(jsParseFloat(item.lat))
  /\ ~jsIsNaN(jsParseFloat(item.lng))
  /\ item.pubDate = JSStr

GDACSSkip(item) == jsIsNaN(jsParseFloat(item.lat)) \/ jsIsNaN(jsParseFloat(item.lng))

GDACSMap(item, idx, t) ==
  Incident("gdacs", idx * GdacsIdStride + t, GDACSType(item.title),
           jsParseFloat(item.lat), jsParseFloat(item.lng),
           GDACSSevMap(item.alertlevel),
           IF IsNumber(item.pubDate) THEN item.pubDate ELSE JSNull)

RECURSIVE GDACSRecords(_, _, _)
GDACSRecords(items, idx, t) ==
  IF idx >= Len(items) THEN <<>>
  ELSE (IF GDACSSkip(items[idx + 1]) THEN <<>> ELSE <<GDACSMap(items[idx + 1], idx, t)>>)
       \o GDACSRecords(items, idx + 1, t)

fetchGDACS(src, t) ==
  LET itemArr == SubSeq(src.records, 1, IF Len(src.records) < GDACS_CAP
                                         THEN Len(src.records) ELSE GDACS_CAP)
  IN IF ~src.up THEN Rejected("timeout of 10000ms exceeded")
     ELSE IF \E k \in 1..Len(itemArr) : GDACSThrows(itemArr[k])
          THEN Rejected("RangeError")
     ELSE Fulfilled(GDACSRecords(itemArr, 0, t))

(***************************************************************************)
(* SOURCE 4: ReliefWeb                                                     *)
(***************************************************************************)
RWTypeMap(code) ==
  CASE code = "EQ" -> "earthquake"
    [] code = "FL" -> "flood"
    [] code = "TC" -> "storm"
    [] code = "VO" -> "volcano"
    [] code = "TS" -> "tsunami"
    [] code = "WF" -> "fire"
    [] OTHER -> "other"

\* if (!country?.location) continue;  [lng, lat] = location.split(',').map(Number)
RWSkip(item) ==
  \/ ~item.location
  \/ jsIsNaN(ToNumber(item.lat))
  \/ jsIsNaN(ToNumber(item.lng))

RWMap(item) ==
  Incident("rw", item.id, RWTypeMap(item.code), ToNumber(item.lat), ToNumber(item.lng),
           "high", item.created)

RECURSIVE RWRecords(_)
RWRecords(feed) ==
  IF feed = <<>> THEN <<>>
  ELSE (IF RWSkip(Head(feed)) THEN <<>> ELSE <<RWMap(Head(feed))>>)
       \o RWRecords(Tail(feed))

fetchReliefWeb(src) ==
  IF ~src.up THEN Rejected("timeout of 10000ms exceeded")
  ELSE Fulfilled(RWRecords(src.records))

(***************************************************************************)
(* SOURCE 5: Reddit                                                        *)
(***************************************************************************)
UPVOTES_CRITICAL == 5000
UPVOTES_SCARY == 2000
UPVOTES_HIGH == 1000
UPVOTES_MODERATE == 200

scoreSeverity(upvotes, scary) ==
  IF upvotes > UPVOTES_CRITICAL \/ (upvotes > UPVOTES_SCARY /\ scary) THEN "critical"
  ELSE IF upvotes > UPVOTES_HIGH \/ scary THEN "high"
  ELSE IF upvotes > UPVOTES_MODERATE THEN "moderate"
  ELSE "low"

\* p.type is classifyDisasterType's answer ("" when no keyword matches),
\* p.place is whether extractLocation finds a gazetteer name
RedditSkip(p) == p.score < MIN_SCORE \/ p.type = "" \/ ~p.place

\* extractLocation: gazetteer coordinate plus the random jitter drawn for the post
RedditMap(p) ==
  Incident("reddit", p.id, p.type, p.lat + p.jlat, p.lng + p.jlng,
           scoreSeverity(p.score, p.scary), p.created)

RECURSIVE RedditRecords(_)
RedditRecords(feed) ==
  IF feed = <<>> THEN <<>>
  ELSE (IF RedditSkip(Head(feed)) THEN <<>> ELSE <<RedditMap(Head(feed))>>)
       \o RedditRecords(Tail(feed))

\* src.up = FALSE is a failed token exchange (getRedditToken rejects)
fetchRedditPosts(src, clientId) ==
  IF ~clientId THEN Fulfilled(<<>>)
  ELSE IF ~src.up THEN Rejected("Request failed with status code 401")
  ELSE Fulfilled(RedditRecords(src.records))

(***************************************************************************)
(* Deduplicate incidents by proximity                                      *)
(***************************************************************************)
\* the type is not compared
ClashAnyType(s, inc) ==
  /\ AbsDiffLess(s.lat, inc.lat, DEDUP_DELTA)
  /\ AbsDiffLess(s.lng, inc.lng, DEDUP_DELTA)

Clash(s, inc) ==
  /\ s.type = inc.type
  /\ AbsDiffLess(s.lat, inc.lat, DEDUP_DELTA)
  /\ AbsDiffLess(s.lng, inc.lng, DEDUP_DELTA)

\* only the most recently accepted incident is compared
RECURSIVE DedupFromLast(_, _)
DedupFromLast(incidents, seen) ==
  IF incidents = <<>> THEN seen
  ELSE LET inc == Head(incidents)
       IN IF seen # <<>> /\ Clash(seen[Len(seen)], inc)
          THEN DedupFromLast(Tail(incidents), seen)
          ELSE DedupFromLast(Tail(incidents), Append(seen, inc))

\* incidents.filter(inc => ...) with the accumulator `seen`
RECURSIVE DedupFrom(_, _)
DedupFrom(incidents, seen) ==
  IF incidents = <<>> THEN seen
  ELSE LET inc == Head(incidents)
       IN IF \E k \in 1..Len(seen) : Clash(seen[k], inc)
          THEN DedupFrom(Tail(incidents), seen)
          ELSE DedupFrom(Tail(incidents), Append(seen, inc))

deduplicateIncidents(incidents) == DedupFrom(incidents, <<>>)

(***************************************************************************)
(* Ranking: deduped.sort(comparator)                                       *)
(***************************************************************************)
\* sevOrder[severity] ?? 3
sevOrder(severity) ==
  CASE severity = "critical" -> 0
    [] severity = "high" -> 1
    [] severity = "moderate" -> 2
    [] severity = "low" -> 3
    [] OTHER -> 3

\* new Date(time || 0) as a number
DateOf(time) == IF IsNumber(time) THEN time ELSE 0

\* oldest first within a severity tier
CompareTimeAscending(a, b) ==
  LET sd == sevOrder(a.severity) - sevOrder(b.severity)
  IN IF sd # 0 THEN sd ELSE DateOf(a.time) - DateOf(b.time)

Compare(a, b) ==
  LET sd == sevOrder(a.severity) - sevOrder(b.severity)
  IN IF sd # 0 THEN sd ELSE DateOf(b.time) - DateOf(a.time)

\* Array.prototype.sort is stable: an element goes after every element that
\* does not compare greater than it
SortInsert(sorted, x) ==
  LET after == {k \in 1..Len(sorted) : Compare(sorted[k], x) > 0}
      pos == IF after = {} THEN Len(sorted) + 1
             ELSE CHOOSE k \in after : \A j \in after : k <= j
  IN SubSeq(sorted, 1, pos - 1) \o <<x>> \o SubSeq(sorted, pos, Len(sorted))

RECURSIVE SortFrom(_, _)
SortFrom(rest, sorted) ==
  IF rest = <<>> THEN sorted
  ELSE SortFrom(Tail(rest), SortInsert(sorted, Head(rest)))

Sort(list) == SortFrom(list, <<>>)

(***************************************************************************)
(* Main aggregation function                                               *)
(***************************************************************************)
\* Promise.allSettled([...]): one settled outcome per source, in source order
Settle(w, clientId, t) ==
  << fetchUSGS(w["USGS"]),
     fetchNASAEONET(w["NASA EONET"], t),
     fetchGDACS(w["GDACS"], t),
     fetchReliefWeb(w["ReliefWeb"]),
     fetchRedditPosts(w["Reddit"], clientId) >>

\* Promise.all-like: nothing is collected after the first rejected adapter
RECURSIVE CombineUntilRejected(_, _)
CombineUntilRejected(results, i) ==
  IF i > Len(results) \/ results[i].status # "fulfilled" THEN <<>>
  ELSE results[i].value \o CombineUntilRejected(results, i + 1)

\* results.forEach: combined.push(...result.value) for the fulfilled ones
RECURSIVE Combine(_, _)
Combine(results, i) ==
  IF i > Len(results) THEN <<>>
  ELSE (IF results[i].status = "fulfilled" THEN results[i].value ELSE <<>>)
       \o Combine(results, i + 1)

StatusOf(result) ==
  IF result.status = "fulfilled"
  THEN [ok |-> TRUE, count |-> Len(result.value), error |-> ""]
  ELSE [ok |-> FALSE, count |-> JSUndef, error |-> result.reason]

SourceStatus(results) ==
  [name \in Sources |->
     StatusOf(results[CHOOSE i \in 1..Len(sourceNames) : sourceNames[i] = name])]

\* the result is stamped with the time the process started
aggregateAllSourcesStaleStamp(w, clientId, t) ==
  LET results == Settle(w, clientId, t)
  IN [incidents |-> Sort(deduplicateIncidents(Combine(results, 1))),
      sourceStatus |-> SourceStatus(results),
      fetchedAt |-> 1]

aggregateAllSources(w, clientId, t) ==
  LET results == Settle(w, clientId, t)
  IN [incidents |-> Sort(deduplicateIncidents(Combine(results, 1))),
      sourceStatus |-> SourceStatus(results),
      fetchedAt |-> t]

(***************************************************************************)
(* Upstream feeds the model publishes                                      *)
(***************************************************************************)
USGSFeatures ==
  { [id |-> 1, mag |-> 66, lat |-> 10, lng |-> 10, time |-> 2],
    [id |-> 2, mag |-> 30, lat |-> 13, lng |-> 12, time |-> 1],
    [id |-> 3, mag |-> 46, lat |-> 0, lng |-> 10, time |-> 2],
    [id |-> 4, mag |-> JSNull, lat |-> 10, lng |-> 10, time |-> 1] }

NASAEvents ==
  { [id |-> 1, category |-> "Earthquakes", geo |-> "Point", lat |-> 14, lng |-> 10, date |-> 2],
    [id |-> 2, category |-> "Floods", geo |-> "Point", lat |-> JSNull, lng |-> JSNull, date |-> JSUndef],
    [id |-> 3, category |-> "Wildfires", geo |-> "Polygon", lat |-> 40, lng |-> 40, date |-> 1] }

GDACSItems ==
  { [title |-> "earthquake", lat |-> 18, lng |-> 10, alertlevel |-> "Red", pubDate |-> 2],
    [title |-> "flood", lat |-> JSUndef, lng |-> JSUndef, alertlevel |-> "", pubDate |-> 1],
    [title |-> "storm", lat |-> 50, lng |-> 50, alertlevel |-> "Orange", pubDate |-> JSUndef] }

RWItems ==
  { [id |-> 1, location |-> TRUE, lat |-> 40, lng |-> 40, code |-> "WF", created |-> 1],
    [id |-> 2, location |-> TRUE, lat |-> 50, lng |-> 50, code |-> "FL", created |-> JSUndef],
    [id |-> 3, location |-> FALSE, lat |-> JSUndef, lng |-> JSUndef, code |-> "EQ", created |-> 2] }

RedditPosts ==
  { [id |-> 1, score |-> 6000, scary |-> FALSE, type |-> "storm", place |-> TRUE,
     lat |-> 50, lng |-> 50, jlat |-> 3, jlng |-> -3, created |-> 2],
    [id |-> 2, score |-> 300, scary |-> TRUE, type |-> "storm", place |-> TRUE,
     lat |-> 50, lng |-> 50, jlat |-> -6, jlng |-> 0, created |-> 2],
    [id |-> 3, score |-> 5, scary |-> FALSE, type |-> "flood", place |-> TRUE,
     lat |-> 60, lng |-> 60, jlat |-> 0, jlng |-> 0, created |-> 1] }

Menu(name) ==
  CASE name = "USGS" -> USGSFeatures
    [] name = "NASA EONET" -> NASAEvents
    [] name = "GDACS" -> GDACSItems
    [] name = "ReliefWeb" -> RWItems
    [] name = "Reddit" -> RedditPosts

NoFeed == [up |-> TRUE, records |-> <<>>]

Down == [up |-> FALSE, records |-> <<>>]

EmptyWorld == [name \in Sources |-> NoFeed]

RECURSIVE TotalRecords(_, _)
TotalRecords(w, i) ==
  IF i > Len(sourceNames) THEN 0
  ELSE Len(w[sourceNames[i]].records) + TotalRecords(w, i + 1)

(***************************************************************************)
(* Pipeline specification: the upstream feeds are built record by record,  *)
(* any source may be down, and one aggregation run is applied to them.     *)
(***************************************************************************)
NoPipe == [ran |-> FALSE, results |-> <<>>, combined |-> <<>>, deduped |-> <<>>, result |-> <<>>]

NoCache == [data |-> <<>>, timestamp |-> JSNull]

\* a run of fetchRedditPosts that has not been called yet
NoRun == [pc |-> "idle", began |-> 0, bearer |-> JSNull, bearerExpiry |-> 0,
          sent |-> 0, outcome |-> "none"]

\* let redditToken = null; let redditTokenExpiry = 0;
TokenIdle ==
  /\ redditToken = JSNull
  /\ redditTokenExpiry = 0
  /\ run = [r \in 1..MaxRuns |-> NoRun]

ServerIdle ==
  /\ listening = FALSE
  /\ cache = NoCache
  /\ prewarm = [pc |-> "init", runs |-> 0]
  /\ reqs = EmptyBag
  /\ lastAll = <<>>
  /\ response = <<>>

serverVars == <<listening, cache, prewarm, reqs, lastAll, response>>

InitPipe ==
  /\ world = EmptyWorld
  /\ env \in BOOLEAN
  /\ pipe = NoPipe
  /\ now = 1
  /\ ServerIdle
  /\ secret = env
  /\ TokenIdle

\* a provider publishes one more record
Publish(name, rec) ==
  /\ world[name].up
  /\ TotalRecords(world, 1) < MaxRecords
  /\ world' = [world EXCEPT ![name].records = Append(@, rec)]
  /\ pipe' = NoPipe
  /\ UNCHANGED <<tokenVars, env, now, serverVars>>

\* a provider stops answering (network timeout, or a refused token exchange)
Outage(name) ==
  /\ world[name] = NoFeed
  /\ world' = [world EXCEPT ![name] = Down]
  /\ pipe' = NoPipe
  /\ UNCHANGED <<tokenVars, env, now, serverVars>>

\* one call of aggregateAllSources(), keeping its intermediate lists
Aggregate ==
  /\ ~pipe.ran
  /\ LET results == Settle(world, env, now)
         combined == Combine(results, 1)
     IN pipe' = [ran |-> TRUE, results |-> results, combined |-> combined,
                 deduped |-> deduplicateIncidents(combined),
                 result |-> <<aggregateAllSources(world, env, now)>>]
  /\ UNCHANGED <<tokenVars, world, env, now, serverVars>>

PublishAny == \E name \in Sources : \E rec \in Menu(name) : Publish(name, rec)

OutageAny == \E name \in Sources : Outage(name)

NextPipe == PublishAny \/ OutageAny \/ Aggregate

SpecPipe == InitPipe /\ [][NextPipe]_vars

(***************************************************************************)
(* Properties of one aggregation run                                       *)
(***************************************************************************)
Range(seq) == {seq[k] : k \in 1..Len(seq)}

RECURSIVE SumCounts(_, _)
SumCounts(results, i) ==
  IF i > Len(results) THEN 0
  ELSE (IF results[i].status = "fulfilled" THEN Len(results[i].value) ELSE 0)
       + SumCounts(results, i + 1)

\* the claim's notion of "the same physical event": equal type, both deltas below 0.5
SameEvent(a, b) ==
  /\ a.type = b.type
  /\ AbsDiffLess(a.lat, b.lat, 5)
  /\ AbsDiffLess(a.lng, b.lng, 5)

\* C3: whatever subset of the five adapters fails, the run completes: the
\* status map has one entry per source, not-ok with an error exactly for the
\* rejected adapters and ok with the adapter's own incident count for the
\* others, and every incident of a fulfilled adapter is in the combined list
\* and is represented in the served list.
C3_PartialFailureTolerated ==
  pipe.ran =>
    LET res == pipe.result[1]
    IN /\ DOMAIN res.sourceStatus = Sources
       /\ Len(pipe.combined) = SumCounts(pipe.results, 1)
       /\ \A i \in 1..Len(sourceNames) :
            LET name == sourceNames[i]
                out == pipe.results[i]
                st == res.sourceStatus[name]
            IN /\ (~world[name].up /\ (name = "Reddit" => env)) => out.status = "rejected"
               /\ IF out.status = "rejected"
                  THEN st.ok = FALSE /\ st.error = out.reason /\ st.error # ""
                  ELSE /\ st.ok = TRUE
                       /\ st.count = Len(out.value)
                       /\ \A x \in Range(out.value) :
                            /\ x \in Range(pipe.combined)
                            /\ \E y \in Range(res.incidents) : y = x \/ SameEvent(y, x)

C3_Witness ==
  /\ pipe.ran
  /\ \E i, j, k \in 1..Len(sourceNames) :
       /\ i # j
       /\ pipe.results[i].status = "rejected"
       /\ pipe.results[j].status = "rejected"
       /\ pipe.results[k].status = "fulfilled"
       /\ Len(pipe.results[k].value) > 0
       /\ pipe.results[k].value[1] \in Range(pipe.result[1].incidents)

NoTwoSameEvent(list) ==
  \A i, j \in 1..Len(list) : i # j => ~SameEvent(list[i], list[j])

\* C4: the Deduplicator's output, and so the ranked list that is served,
\* holds no two distinct entries of equal type whose latitudes and
\* longitudes both differ by less than 0.5.
C4_NoTwoClashingSurvivors ==
  pipe.ran => NoTwoSameEvent(pipe.deduped) /\ NoTwoSameEvent(pipe.result[1].incidents)

C4_Witness ==
  /\ pipe.ran
  /\ Len(pipe.deduped) >= 2
  /\ Len(pipe.deduped) < Len(pipe.combined)
  /\ \E i, j \in 1..Len(pipe.deduped) :
       i # j /\ pipe.deduped[i].type = pipe.deduped[j].type

\* the input positions first-seen-wins keeps: position i is kept iff no kept
\* earlier position holds the same physical event
KeptPositions(input) ==
  LET kept[i \in 0..Len(input)] ==
        IF i = 0 THEN {}
        ELSE IF \E j \in kept[i - 1] : SameEvent(input[j], input[i])
             THEN kept[i - 1]
             ELSE kept[i - 1] \cup {i}
  IN kept[Len(input)]

RECURSIVE Pick(_, _, _)
Pick(input, positions, i) ==
  IF i > Len(input) THEN <<>>
  ELSE (IF i \in positions THEN <<input[i]>> ELSE <<>>) \o Pick(input, positions, i + 1)

\* C5: the Deduplicator keeps, in input order and unmodified, exactly the
\* incidents that clash with no incident accepted before them, and applying
\* it to its own output changes nothing.
C5_FirstSeenWins ==
  pipe.ran =>
    /\ pipe.deduped = Pick(pipe.combined, KeptPositions(pipe.combined), 1)
    /\ deduplicateIncidents(pipe.deduped) = pipe.deduped

\* a discarded incident is followed by a kept one that clashes with the
\* discarded one but not with anything accepted
C5_Witness ==
  /\ pipe.ran
  /\ \E i, j \in 1..Len(pipe.combined) :
       /\ i < j
       /\ i \notin KeptPositions(pipe.combined)
       /\ j \in KeptPositions(pipe.combined)
       /\ SameEvent(pipe.combined[i], pipe.combined[j])

Tier(severity) ==
  IF severity = "critical" THEN 0
  ELSE IF severity = "high" THEN 1
  ELSE IF severity = "moderate" THEN 2
  ELSE 3

Epoch(time) == IF time \in {JSNull, JSUndef} THEN 0 ELSE time

SameRank(a, b) == Tier(a.severity) = Tier(b.severity) /\ Epoch(a.time) = Epoch(b.time)

\* C6: the served list is a permutation of the deduplicated list, ordered by
\* severity tier ascending and, within a tier, by time descending with a
\* null or missing time counted as epoch 0; incidents of equal tier and
\* time keep their input order.
C6_RankedStably ==
  pipe.ran =>
    LET input == pipe.deduped
        out == pipe.result[1].incidents
        n == Len(input)
    IN /\ Len(out) = n
       /\ \A i, j \in 1..n :
            i < j => \/ Tier(out[i].severity) < Tier(out[j].severity)
                     \/ /\ Tier(out[i].severity) = Tier(out[j].severity)
                        /\ Epoch(out[i].time) >= Epoch(out[j].time)
       /\ \E f \in [1..n -> 1..n] :
            /\ \A i, j \in 1..n : i # j => f[i] # f[j]
            /\ \A i \in 1..n : out[i] = input[f[i]]
            /\ \A i, j \in 1..n : (i < j /\ SameRank(out[i], out[j])) => f[i] < f[j]

C6_Witness ==
  /\ pipe.ran
  /\ pipe.result[1].incidents # pipe.deduped
  /\ \E i \in 1..(Len(pipe.result[1].incidents) - 1) :
       LET a == pipe.result[1].incidents[i]
           b == pipe.result[1].incidents[i + 1]
       IN SameRank(a, b) /\ a.time \in {JSNull, JSUndef}

ValidCoordinate(v) == IsNumber(v)

\* C7: a record whose latitude or longitude is missing or non-numeric yields
\* no incident, a record with two valid numeric coordinates is not dropped
\* for its coordinates, and so every incident reaching the Deduplicator has
\* numeric lat and lng.
C7_OnlyValidCoordinatesPass ==
  pipe.ran =>
    /\ \A x \in Range(pipe.combined) : ValidCoordinate(x.lat) /\ ValidCoordinate(x.lng)
    /\ \A x \in Range(pipe.result[1].incidents) : ValidCoordinate(x.lat) /\ ValidCoordinate(x.lng)
    /\ pipe.results[1].status = "fulfilled" =>
         \A f \in Range(world["USGS"].records) :
           (ValidCoordinate(f.lat) /\ ValidCoordinate(f.lng))
             => \E x \in Range(pipe.results[1].value) : x.id = <<"usgs", f.id>>
    /\ pipe.results[2].status = "fulfilled" =>
         \A e \in Range(world["NASA EONET"].records) :
           (ValidCoordinate(e.lat) /\ ValidCoordinate(e.lng) /\ e.geo \in {"Point", "Polygon"})
             => \E x \in Range(pipe.results[2].value) : x.id = <<"nasa", e.id>>
    /\ pipe.results[4].status = "fulfilled" =>
         \A item \in Range(world["ReliefWeb"].records) :
           (ValidCoordinate(item.lat) /\ ValidCoordinate(item.lng) /\ item.location)
             => \E x \in Range(pipe.results[4].value) : x.id = <<"rw", item.id>>

(***************************************************************************)
(* The server: startup pre-warm, the cache and the three routes.           *)
(* reqs is the bag of handlers suspended at await aggregateAllSources();   *)
(* response is the response sent by the latest step (<<>> when it sent none);   *)
(* lastAll remembers the latest /api/incidents response.                   *)
(***************************************************************************)
Feature(id) == CHOOSE f \in USGSFeatures : f.id = id

Event(id) == CHOOSE e \in NASAEvents : e.id = id

WorldA ==
  [EmptyWorld EXCEPT !["USGS"].records = <<Feature(2), Feature(1)>>,
                     !["NASA EONET"].records = <<Event(3)>>,
                     !["Reddit"] = Down]

Alert(title) == CHOOSE item \in GDACSItems : item.title = title

Disaster(id) == CHOOSE item \in RWItems : item.id = id

WorldB ==
  [EmptyWorld EXCEPT !["USGS"] = Down,
                     !["GDACS"].records = <<Alert("storm"), Alert("earthquake")>>,
                     !["ReliefWeb"].records = <<Disaster(2)>>]

AllDown == [name \in Sources |-> Down]

ServerWorlds == {WorldA, WorldB, AllDown}

RouteTypes == {"earthquake", "storm"}

\* an entry exactly TTL old still counts as fresh
CacheFreshLoose(c, t) ==
  /\ c.data # <<>>
  /\ Truthy(c.timestamp)
  /\ t - c.timestamp <= CACHE_TTL_MS

\* cache.data && cache.timestamp && (Date.now() - cache.timestamp < CACHE_TTL_MS)
CacheFresh(c, t) ==
  /\ c.data # <<>>
  /\ Truthy(c.timestamp)
  /\ t - c.timestamp < CACHE_TTL_MS

\* res.json({ ...result, fromCache })
AllResponse(result, fromCache) ==
  [route |-> "all", status |-> 200, incidents |-> result.incidents,
   sourceStatus |-> result.sourceStatus, fetchedAt |-> result.fetchedAt,
   fromCache |-> fromCache]

Remember(result, t) ==
  <<[incidents |-> result.incidents, fetchedAt |-> result.fetchedAt, at |-> t,
     superseded |-> FALSE]>>

\* all.filter(i => i.type === type)
RECURSIVE FilterType(_, _)
FilterType(all, type) ==
  IF all = <<>> THEN <<>>
  ELSE (IF Head(all).type = type THEN <<Head(all)>> ELSE <<>>) \o FilterType(Tail(all), type)

\* res.json({ incidents: filtered, count: filtered.length })
TypeResponse(all, type) ==
  [route |-> "type", status |-> 200, type |-> type, incidents |-> FilterType(all, type),
   count |-> Len(FilterType(all, type))]

\* an empty cached list counts as no cache
HasCachedNonEmpty(c) == c.data # <<>> /\ c.data[1].incidents # <<>>

\* cache.data?.incidents || ... : any cached list, the empty one included, is used
HasCached(c) == c.data # <<>>

Pending(route, type, found) == [route |-> route, type |-> type, found |-> found]

Suspend(req) == reqs (+) SetToBag({req})

Init ==
  /\ world = WorldA
  /\ env = TRUE
  /\ pipe = NoPipe
  /\ now = 1
  /\ ServerIdle
  /\ secret = env
  /\ TokenIdle

\* the server starts listening without a pre-warm run
ListenNoPrewarm ==
  /\ ~listening
  /\ listening' = TRUE
  /\ response' = <<>>
  /\ UNCHANGED <<tokenVars, world, env, pipe, now, cache, prewarm, reqs, lastAll>>

\* app.listen callback: the pre-warm run is started and not awaited
Listen ==
  /\ ~listening
  /\ listening' = TRUE
  /\ prewarm' = [pc |-> "inflight", runs |-> prewarm.runs + 1]
  /\ response' = <<>>
  /\ UNCHANGED <<tokenVars, world, env, pipe, now, cache, reqs, lastAll>>

\* a pre-warm that stores its result only into an empty cache
PrewarmCompleteIfEmpty ==
  /\ prewarm.pc = "inflight"
  /\ cache' = IF cache.data = <<>>
              THEN [data |-> <<aggregateAllSources(world, env, now)>>, timestamp |-> now]
              ELSE cache
  /\ prewarm' = [prewarm EXCEPT !.pc = "done"]
  /\ lastAll' = IF lastAll = <<>> THEN lastAll
                ELSE <<[lastAll[1] EXCEPT !.superseded = TRUE]>>
  /\ response' = <<>>
  /\ UNCHANGED <<tokenVars, world, env, pipe, now, listening, reqs>>

\* .then(result => { cache = { data: result, timestamp: Date.now() } })
PrewarmComplete ==
  /\ prewarm.pc = "inflight"
  /\ cache' = [data |-> <<aggregateAllSources(world, env, now)>>, timestamp |-> now]
  /\ prewarm' = [prewarm EXCEPT !.pc = "done"]
  /\ lastAll' = IF lastAll = <<>> THEN lastAll
                ELSE <<[lastAll[1] EXCEPT !.superseded = TRUE]>>
  /\ response' = <<>>
  /\ UNCHANGED <<tokenVars, world, env, pipe, now, listening, reqs>>

\* GET /api/incidents up to its cached answer or its await
GetAllIncidents ==
  /\ listening
  /\ IF CacheFresh(cache, now)
     THEN /\ response' = <<AllResponse(cache.data[1], TRUE)>>
          /\ lastAll' = Remember(cache.data[1], now)
          /\ reqs' = reqs
     ELSE /\ BagCardinality(reqs) < MaxReqs
          /\ reqs' = Suspend(Pending("all", "", IF cache.data = <<>> THEN JSNull
                                                ELSE cache.data[1].fetchedAt))
          /\ response' = <<>>
          /\ lastAll' = lastAll
  /\ UNCHANGED <<tokenVars, world, env, pipe, now, listening, cache, prewarm>>

\* single-flight: one run answers every suspended GetAllIncidents call
GetAllIncidentsResumeShared(req) ==
  /\ BagIn(req, reqs)
  /\ req.route = "all"
  /\ LET result == aggregateAllSources(world, env, now)
     IN /\ cache' = [data |-> <<result>>, timestamp |-> now]
        /\ response' = <<AllResponse(result, FALSE)>>
        /\ lastAll' = Remember(result, now)
  /\ reqs' = LET S == {x \in BagToSet(reqs) : x.route # "all"}
             IN [x \in S |-> reqs[x]]
  /\ UNCHANGED <<tokenVars, world, env, pipe, now, listening, prewarm>>

\* GET /api/incidents after await aggregateAllSources()
GetAllIncidentsResume(req) ==
  /\ BagIn(req, reqs)
  /\ req.route = "all"
  /\ LET result == aggregateAllSources(world, env, now)
     IN /\ cache' = [data |-> <<result>>, timestamp |-> now]
        /\ response' = <<AllResponse(result, FALSE)>>
        /\ lastAll' = Remember(result, now)
  /\ reqs' = reqs (-) SetToBag({req})
  /\ UNCHANGED <<tokenVars, world, env, pipe, now, listening, prewarm>>

\* GET /api/incidents/:type up to its answer or its await
GetIncidentsByType(type) ==
  /\ listening
  /\ IF HasCached(cache)
     THEN /\ response' = <<TypeResponse(cache.data[1].incidents, type)>>
          /\ reqs' = reqs
     ELSE /\ BagCardinality(reqs) < MaxReqs
          /\ reqs' = Suspend(Pending("type", type, JSNull))
          /\ response' = <<>>
  /\ UNCHANGED <<tokenVars, world, env, pipe, now, listening, cache, prewarm, lastAll>>

\* the by-type route storing the result of its own run
GetIncidentsByTypeResumeStores(req) ==
  /\ BagIn(req, reqs)
  /\ req.route = "type"
  /\ LET result == aggregateAllSources(world, env, now)
     IN /\ cache' = [data |-> <<result>>, timestamp |-> now]
        /\ response' = <<TypeResponse(result.incidents, req.type)>>
  /\ reqs' = reqs (-) SetToBag({req})
  /\ UNCHANGED <<tokenVars, world, env, pipe, now, listening, prewarm, lastAll>>

\* GET /api/incidents/:type after (await aggregateAllSources()).incidents
GetIncidentsByTypeResume(req) ==
  /\ BagIn(req, reqs)
  /\ req.route = "type"
  /\ response' = <<TypeResponse(aggregateAllSources(world, env, now).incidents, req.type)>>
  /\ reqs' = reqs (-) SetToBag({req})
  /\ UNCHANGED <<tokenVars, world, env, pipe, now, listening, cache, prewarm, lastAll>>

\* GET /api/health
GetHealth ==
  /\ listening
  /\ response' = <<[route |-> "health", status |-> "ok",
               cacheAge |-> IF Truthy(cache.timestamp)
                            THEN (now - cache.timestamp) * 60 ELSE JSEmpty,
               uptime |-> (now - 1) * 60]>>
  /\ UNCHANGED <<tokenVars, world, env, pipe, now, listening, cache, prewarm, reqs, lastAll>>

\* a minute passes
Tick ==
  /\ now < MaxTime
  /\ now' = now + 1
  /\ response' = <<>>
  /\ UNCHANGED <<tokenVars, world, env, pipe, listening, cache, prewarm, reqs, lastAll>>

\* the providers' feeds change between fetches
UpstreamChange ==
  /\ \E w \in ServerWorlds \ {world} : world' = w
  /\ response' = <<>>
  /\ UNCHANGED <<tokenVars, env, pipe, now, listening, cache, prewarm, reqs, lastAll>>

GetAllIncidentsResumeAny == \E req \in BagToSet(reqs) : GetAllIncidentsResume(req)

GetIncidentsByTypeAny == \E type \in RouteTypes : GetIncidentsByType(type)

GetIncidentsByTypeResumeAny == \E req \in BagToSet(reqs) : GetIncidentsByTypeResume(req)

Next ==
  \/ Listen
  \/ PrewarmComplete
  \/ GetAllIncidents
  \/ GetAllIncidentsResumeAny
  \/ GetIncidentsByTypeAny
  \/ GetIncidentsByTypeResumeAny
  \/ GetHealth
  \/ Tick
  \/ UpstreamChange

Spec == Init /\ [][Next]_vars

(***************************************************************************)
(* Properties of the cache and the routes                                  *)
(***************************************************************************)
InFlight(bag, route) ==
  LET S == {req \in BagToSet(bag) : req.route = route}
  IN IF S = {} THEN 0 ELSE BagCardinality([req \in S |-> bag[req]])

\* the claim's freshness test: an entry exists and now - storedAt < TTL (3 minutes)
EntryExists == cache.data # <<>> /\ cache.timestamp # JSNull

EntryFresh == EntryExists /\ now - cache.timestamp < 3

\* this step answers a GetAllIncidents call from the cache
AllServedFromCache ==
  /\ response' # <<>>
  /\ response'[1].route = "all"
  /\ response'[1].fromCache

\* this step starts the pipeline run of a GetAllIncidents call
AllRunStarted == InFlight(reqs', "all") > InFlight(reqs, "all")

\* this step answers a GetAllIncidents call with its freshly computed result
AllRunAnswered ==
  /\ response' # <<>>
  /\ response'[1].route = "all"
  /\ ~response'[1].fromCache

AllCalled == AllServedFromCache \/ AllRunStarted

ResultOf(resp) ==
  [incidents |-> resp.incidents, sourceStatus |-> resp.sourceStatus, fetchedAt |-> resp.fetchedAt]

\* C1: a GetAllIncidents call handled while an entry exists and
\* now - storedAt < TTL is answered with exactly the stored result, flagged
\* fromCache, and starts no run; a call handled otherwise starts a full run,
\* whose result is stored with the current timestamp and answered unflagged.
C1_FreshHitElseFullRun ==
  [][ /\ AllCalled =>
           IF EntryFresh
           THEN /\ AllServedFromCache
                /\ ResultOf(response'[1]) = cache.data[1]
                /\ reqs' = reqs
                /\ cache' = cache
           ELSE /\ AllRunStarted
                /\ InFlight(reqs', "all") = InFlight(reqs, "all") + 1
                /\ response' = <<>>
      /\ AllRunAnswered =>
           /\ InFlight(reqs', "all") = InFlight(reqs, "all") - 1
           /\ ResultOf(response'[1]) = aggregateAllSources(world, env, now)
           /\ cache' = [data |-> <<ResultOf(response'[1])>>, timestamp |-> now]
    ]_vars

C1_Witness ==
  /\ response # <<>>
  /\ response[1].route = "all"
  /\ ~response[1].fromCache
  /\ prewarm.pc = "done"
  /\ now >= 1 + CACHE_TTL_MS
  /\ cache = [data |-> <<ResultOf(response[1])>>, timestamp |-> now]
  /\ response[1].incidents # <<>>

Resumed == {req \in BagToSet(reqs) : CopiesIn(req, reqs') < CopiesIn(req, reqs)}

TypeServed ==
  /\ response' # <<>>
  /\ response'[1].route = "type"
  /\ reqs' = reqs

TypeRunStarted == InFlight(reqs', "type") > InFlight(reqs, "type")

TypeRunAnswered ==
  /\ response' # <<>>
  /\ response'[1].route = "type"
  /\ reqs' # reqs

TypeCalled == TypeServed \/ TypeRunStarted

OfType(all, type) == SelectSeq(all, LAMBDA i : i.type = type)

\* C8: with an entry present GetIncidentsByType answers at once with the
\* cached incidents of the requested type, in cached order, and their
\* number, starting no run; with no entry it runs one aggregation and
\* answers with the same filter of the fresh result.
C8_ByTypeFiltersCacheOrFreshRun ==
  [][ /\ TypeCalled =>
           IF cache.data # <<>>
           THEN /\ TypeServed
                /\ response'[1].incidents = OfType(cache.data[1].incidents, response'[1].type)
                /\ response'[1].count = Len(response'[1].incidents)
           ELSE /\ InFlight(reqs', "type") = InFlight(reqs, "type") + 1
                /\ InFlight(reqs', "all") = InFlight(reqs, "all")
                /\ response' = <<>>
      /\ TypeRunAnswered =>
           /\ InFlight(reqs', "type") = InFlight(reqs, "type") - 1
           /\ \A req \in Resumed :
                /\ response'[1].type = req.type
                /\ response'[1].incidents =
                     OfType(aggregateAllSources(world, env, now).incidents, req.type)
           /\ response'[1].count = Len(response'[1].incidents)
    ]_vars

C8_Witness ==
  /\ response # <<>>
  /\ response[1].route = "type"
  /\ cache.data # <<>>
  /\ response[1].count >= 1
  /\ response[1].count < Len(cache.data[1].incidents)
  /\ response[1].incidents = OfType(cache.data[1].incidents, response[1].type)

C10_RefreshesNotSerialized ==
  [][ /\ (AllCalled /\ ~EntryFresh /\ InFlight(reqs, "all") >= 1) =>
           /\ InFlight(reqs', "all") = InFlight(reqs, "all") + 1
           /\ response' = <<>>
           /\ cache' = cache
      /\ (AllRunAnswered /\ InFlight(reqs, "all") >= 2) =>
           /\ InFlight(reqs', "all") = InFlight(reqs, "all") - 1
           /\ ResultOf(response'[1]) = aggregateAllSources(world, env, now)
    ]_vars

C10_Witness ==
  /\ InFlight(reqs, "all") >= 2
  /\ prewarm.pc = "done"
  /\ cache.data # <<>>

(***************************************************************************)
(* Record-level handling of malformed upstream records                     *)
(***************************************************************************)
\* a USGS feature with a numeric magnitude, a full coordinate array and a
\* parsable time (a coordinate of exactly 0 is the subject of C7)
USGSWellFormed(f) ==
  /\ IsNumber(f.mag)
  /\ ValidCoordinate(f.lat) /\ f.lat # 0
  /\ ValidCoordinate(f.lng) /\ f.lng # 0
  /\ ~jsIsNaN(f.time)

\* C11: a malformed record costs only itself: every adapter whose provider
\* answers fulfils, its source is reported ok, and the well-formed records of
\* its payload still yield their incidents.
C11_MalformedRecordDroppedAlone ==
  pipe.ran =>
    /\ \A i \in 1..Len(sourceNames) :
         world[sourceNames[i]].up =>
           /\ pipe.results[i].status = "fulfilled"
           /\ pipe.result[1].sourceStatus[sourceNames[i]].ok
    /\ world["USGS"].up =>
         \A f \in Range(world["USGS"].records) :
           USGSWellFormed(f) => \E x \in Range(pipe.combined) : x.id = <<"usgs", f.id>>

(***************************************************************************)
(* The credential lifecycle of the social-text adapter                     *)
(*                                                                         *)
(* redditTokenExpiry and expires_in are in half minutes (30 s), so that    *)
(* Date.now() is 2 * now.  env is REDDIT_CLIENT_ID being set, secret is    *)
(* REDDIT_CLIENT_SECRET being set.                                         *)
(***************************************************************************)
TOKEN_MARGIN == 1
SUBREDDITS == 4

DateNow == 2 * now

\* the answers of the token endpoint: data.access_token, data.expires_in
TokenResponses == [access_token : {1, 2}, expires_in : {1, 3}]

\* !redditToken || Date.now() > redditTokenExpiry - 30000
NeedsToken == ~Truthy(redditToken) \/ DateNow > redditTokenExpiry - TOKEN_MARGIN

\* const headers = { Authorization: `Bearer ${redditToken}` }
Querying(r, began, token, expiry) ==
  [run EXCEPT ![r] = [pc |-> "query", began |-> began, bearer |-> token,
                      bearerExpiry |-> expiry, sent |-> 0, outcome |-> "none"]]

\* fetchRedditPosts is called: the guard on REDDIT_CLIENT_ID, the token test,
\* and getRedditToken up to its own guard or its await
RunBegin(r) ==
  /\ run[r].pc \in {"idle", "done"}
  /\ run' =
       IF ~env
       THEN [run EXCEPT ![r] = [NoRun EXCEPT !.pc = "done", !.began = DateNow,
                                              !.outcome = "fulfilled"]]
       ELSE IF NeedsToken /\ secret
       THEN [run EXCEPT ![r] = [NoRun EXCEPT !.pc = "refresh", !.began = DateNow]]
       ELSE Querying(r, DateNow, redditToken, redditTokenExpiry)
  /\ response' = <<>>
  /\ UNCHANGED <<world, env, pipe, now, listening, cache, prewarm, reqs, lastAll,
                 secret, redditToken, redditTokenExpiry>>

\* the token endpoint answers: getRedditToken stores the token and returns
TokenGranted(r, data) ==
  /\ run[r].pc = "refresh"
  /\ redditToken' = data.access_token
  /\ redditTokenExpiry' = DateNow + data.expires_in
  /\ run' = Querying(r, run[r].began, redditToken', redditTokenExpiry')
  /\ response' = <<>>
  /\ UNCHANGED <<world, env, pipe, now, listening, cache, prewarm, reqs, lastAll, secret>>

\* the token endpoint fails: the rejection leaves fetchRedditPosts
TokenRefused(r) ==
  /\ run[r].pc = "refresh"
  /\ run' = [run EXCEPT ![r].pc = "done", ![r].outcome = "rejected"]
  /\ response' = <<>>
  /\ UNCHANGED <<world, env, pipe, now, listening, cache, prewarm, reqs, lastAll,
                 secret, redditToken, redditTokenExpiry>>

\* one axios.get of the loop over the subreddits, with the run's headers
Query(r) ==
  /\ run[r].pc = "query"
  /\ run[r].sent < SUBREDDITS
  /\ run' = [run EXCEPT ![r].sent = @ + 1]
  /\ response' = <<>>
  /\ UNCHANGED <<world, env, pipe, now, listening, cache, prewarm, reqs, lastAll,
                 secret, redditToken, redditTokenExpiry>>

\* return allPosts
RunReturn(r) ==
  /\ run[r].pc = "query"
  /\ run[r].sent = SUBREDDITS
  /\ run' = [run EXCEPT ![r].pc = "done", ![r].outcome = "fulfilled"]
  /\ response' = <<>>
  /\ UNCHANGED <<world, env, pipe, now, listening, cache, prewarm, reqs, lastAll,
                 secret, redditToken, redditTokenExpiry>>

InitToken ==
  /\ world = EmptyWorld
  /\ env \in BOOLEAN
  /\ secret \in BOOLEAN
  /\ pipe = NoPipe
  /\ now = 1
  /\ listening = FALSE
  /\ cache = NoCache
  /\ prewarm = [pc |-> "init", runs |-> 0]
  /\ reqs = EmptyBag
  /\ lastAll = <<>>
  /\ response = <<>>
  /\ TokenIdle

RunBeginAny == \E r \in 1..MaxRuns : RunBegin(r)
TokenGrantedAny == \E r \in 1..MaxRuns : \E data \in TokenResponses : TokenGranted(r, data)
TokenRefusedAny == \E r \in 1..MaxRuns : TokenRefused(r)
QueryAny == \E r \in 1..MaxRuns : Query(r)
RunReturnAny == \E r \in 1..MaxRuns : RunReturn(r)

NextToken ==
  \/ RunBeginAny
  \/ TokenGrantedAny
  \/ TokenRefusedAny
  \/ QueryAny
  \/ RunReturnAny
  \/ Tick

SpecToken == InitToken /\ [][NextToken]_vars

\* C12: a run without credential configuration issues no query and does not
\* fail; every query a run has issued carries a token that is not null and
\* that was not within the safety margin of its expiry when the run began.
C12_QueriesCarryValidToken ==
  \A r \in 1..MaxRuns :
    /\ ~env /\ ~secret => run[r].sent = 0 /\ run[r].outcome # "rejected"
    /\ run[r].sent > 0 =>
         /\ run[r].bearer # JSNull
         /\ run[r].bearerExpiry - run[r].began >= TOKEN_MARGIN

(***************************************************************************)
(* The cache entry and its writers                                         *)
(***************************************************************************)
\* this step answers a GetHealth call
HealthAnswered ==
  /\ response' # <<>>
  /\ response'[1].route = "health"

\* C13: every step of GetIncidentsByType and of GetHealth leaves the cache
\* entry as it was: the run that GetIncidentsByType makes on an empty cache
\* leaves the cache empty, and an entry that is present is served by
\* GetIncidentsByType whatever its age, without a run and without a refresh.
C13_TypeAndHealthLeaveCache ==
  [][ /\ (TypeCalled \/ TypeRunAnswered \/ HealthAnswered) => cache' = cache
      /\ (TypeRunAnswered /\ ~EntryExists) => cache'.data = <<>>
      /\ (TypeCalled /\ EntryExists) =>
           /\ TypeServed
           /\ response'[1].incidents = OfType(cache.data[1].incidents, response'[1].type)
           /\ cache'.timestamp = cache.timestamp
    ]_vars

\* the by-type route has just answered from its own run, and the cache is
\* still empty
C13_Witness ==
  /\ response # <<>>
  /\ response[1].route = "type"
  /\ ~EntryExists
  /\ prewarm.pc = "inflight"

\* this step is the completion of the startup pre-warm run
PrewarmCompleted == prewarm.pc = "inflight" /\ prewarm'.pc = "done"

\* what a pipeline run completing in this step stores
Stored == [data |-> <<aggregateAllSources(world, env, now)>>, timestamp |-> now]

\* C14: every completing run of the pre-warm or of a GetAllIncidents refresh
\* overwrites the entry with its own result and the current time, whatever
\* the entry held and whenever the run started, and nothing else changes the
\* entry; storedAt never decreases, result and storedAt are set together,
\* and a populated entry is never cleared.
C14_LastCompleterWins ==
  [][ /\ (PrewarmCompleted \/ AllRunAnswered) => cache' = Stored
      /\ cache' # cache => (PrewarmCompleted \/ AllRunAnswered)
      /\ cache.timestamp # JSNull => cache'.timestamp >= cache.timestamp
      /\ (cache.data = <<>>) = (cache.timestamp = JSNull)
      /\ (cache'.data = <<>>) = (cache'.timestamp = JSNull)
      /\ cache.data # <<>> => cache'.data # <<>>
    ]_vars

\* the pre-warm, started before a GetAllIncidents refresh, completed after
\* it and replaced the result that refresh had stored and answered with
C14_Witness ==
  /\ prewarm.pc = "done"
  /\ lastAll # <<>>
  /\ lastAll[1].superseded
  /\ cache.timestamp >= lastAll[1].at
  /\ cache.data[1].incidents # lastAll[1].incidents

====
